---- MODULE Spec2Model ----
(***************************************************************************)
(* Model of app.py: a module-level try/finally that opens an MCP tool      *)
(* connection, retrieves the tools, builds a model, an agent and a chat    *)
(* interface, launches the interface, and releases the connection in the   *)
(* finally block.  The chat interface dispatches every incoming message on *)
(* its own execution context, which runs the response function             *)
(*     lambda message, history: str(agent.run(message))                    *)
(* MCPClient, the agent and the chat interface are external libraries:     *)
(* each call to them is a nondeterministic choice over its outcomes        *)
(* (return, raise, never return).                                          *)
(***************************************************************************)
EXTENDS Integers, Sequences, FiniteSets, TLC

\* ---------------------------------------------------------------- bounds
MaxCtx == 2        \* execution contexts the chat interface dispatches on
MaxMsgs == 3       \* messages accepted during one run of the script
MaxToolCalls == 1  \* tool invocations the agent makes for one message

Ctx == 1..MaxCtx
Messages == {"Prime factorization of 68", "hello"}
Histories == {<<>>, <<"hello">>}
ToolSets == {<<"t1">>, <<"t1", "t2">>}

\* The ways agent.run can return: an integer answer or a text answer.
AgentCourses == {"int", "str"}

VARIABLES
    pc,              \* position of the main script
    bound,           \* names bound in the module namespace
    conn,            \* the tool-source session: "none", "open", "closed"
    tools,           \* value of the module variable tools
    agentTools,      \* tool list bound to the agent
    retrieved,       \* results of the get_tools calls made so far, in order
    exc,             \* exception in flight in the main script, or "none"
    failedAt,        \* try-body step that raised, or "none"
    closeCalls,      \* number of mcp_client.close() invocations
    exitStatus,      \* "running", "ok" or "failed"
    ctx,             \* per execution context: the exchange it is handling
    received,        \* messages accepted by the chat interface
    runCalls,        \* agent.run invocations
    usedAfterClose   \* a tool was invoked on the session after close()

vars == <<pc, bound, conn, tools, agentTools, retrieved, exc, failedAt,
          closeCalls, exitStatus, ctx, received, runCalls, usedAfterClose>>

scriptVars == <<pc, bound, conn, tools, agentTools, retrieved, exc, failedAt,
                closeCalls, exitStatus>>

\* ------------------------------------------------------ external objects
\* Attributes of an MCPClient object as the script uses them.
MCPClientAttrs == {"get_tools", "close"}

\* hasattr(obj, name) for an object with the given attribute set.
HasAttr(attrs, name) == name \in attrs

\* The number an integer answer carries for a request.
Answer(request) == IF request = "Prime factorization of 68" THEN 68 ELSE 0

\* agent.run(*args): the final answer of the agent for one course.
AgentRun(course, args) ==
    IF course = "int"
    THEN [type |-> "int", num |-> Answer(args[1]), text |-> ""]
    ELSE [type |-> "str", num |-> 0, text |-> args[1]]

\* str(value)
Str(v) == IF v.type = "int" THEN ToString(v.num) ELSE v.text

\* [*tools]: a new list with the elements of tools
Unpack(ts) == [i \in 1..Len(ts) |-> ts[i]]

IdleCtx ==
    [phase |-> "idle", msg |-> "", hist |-> <<>>, args |-> <<>>,
     run |-> "none", course |-> "none", nTool |-> 0,
     outcome |-> "none", response |-> ""]

Init ==
    /\ pc = "MCPClient"
    /\ bound = {}
    /\ conn = "none"
    /\ tools = <<>>
    /\ agentTools = <<>>
    /\ retrieved = <<>>
    /\ exc = "none"
    /\ failedAt = "none"
    /\ closeCalls = 0
    /\ exitStatus = "running"
    /\ ctx = [c \in Ctx |-> IdleCtx]
    /\ received = 0
    /\ runCalls = 0
    /\ usedAfterClose = FALSE

\* ------------------------------------------------------------ main script
\* Variant of RaiseInTry without the finally block: the exception ends the
\* script at once.
RaiseWithoutFinally(step, e) ==
    /\ pc = step
    /\ pc' = "exit"
    /\ exc' = e
    /\ failedAt' = step
    /\ UNCHANGED <<bound, conn, tools, agentTools, retrieved, closeCalls,
                   exitStatus, ctx, received, runCalls, usedAfterClose>>

\* A statement of the try body raises: control passes to the finally block
\* with the exception in flight.
RaiseInTry(step, e) ==
    /\ pc = step
    /\ pc' = "finally"
    /\ exc' = e
    /\ failedAt' = step
    /\ UNCHANGED <<bound, conn, tools, agentTools, retrieved, closeCalls,
                   exitStatus, ctx, received, runCalls, usedAfterClose>>

\* mcp_client = MCPClient({...}) returns: the session is open, the name bound.
MCPClientOK ==
    /\ pc = "MCPClient"
    /\ pc' = "get_tools"
    /\ bound' = bound \cup {"mcp_client"}
    /\ conn' = "open"
    /\ UNCHANGED <<tools, agentTools, retrieved, exc, failedAt, closeCalls,
                   exitStatus, ctx, received, runCalls, usedAfterClose>>

\* MCPClient({...}) raises: the assignment never happens.
MCPClientRaise == RaiseInTry("MCPClient", "ConnectionError")

\* tools = mcp_client.get_tools() returns a tool list.
GetToolsOK ==
    /\ pc = "get_tools"
    /\ \E ts \in ToolSets :
          /\ tools' = ts
          /\ retrieved' = Append(retrieved, ts)
    /\ bound' = bound \cup {"tools"}
    /\ pc' = "model"
    /\ UNCHANGED <<conn, agentTools, exc, failedAt, closeCalls, exitStatus,
                   ctx, received, runCalls, usedAfterClose>>

\* Variant of GetToolsRaise that swallows the failure and goes on.
GetToolsRaiseSwallowed ==
    /\ pc = "get_tools"
    /\ pc' = "model"
    /\ failedAt' = "get_tools"
    /\ UNCHANGED <<bound, conn, tools, agentTools, retrieved, exc, closeCalls,
                   exitStatus, ctx, received, runCalls, usedAfterClose>>

GetToolsRaise == RaiseInTry("get_tools", "ToolRetrievalError")

\* model = InferenceClientModel(...)
ModelOK ==
    /\ pc = "model"
    /\ bound' = bound \cup {"model"}
    /\ pc' = "agent"
    /\ UNCHANGED <<conn, tools, agentTools, retrieved, exc, failedAt, closeCalls,
                   exitStatus, ctx, received, runCalls, usedAfterClose>>

ModelRaise == RaiseInTry("model", "ModelError")

\* agent = CodeAgent(tools=[*tools], model=model)
AgentOK ==
    /\ pc = "agent"
    /\ agentTools' = Unpack(tools)
    /\ bound' = bound \cup {"agent"}
    /\ pc' = "ChatInterface"
    /\ UNCHANGED <<conn, tools, retrieved, exc, failedAt, closeCalls,
                   exitStatus, ctx, received, runCalls, usedAfterClose>>

AgentRaise == RaiseInTry("agent", "AgentBuildError")

\* demo = gr.ChatInterface(fn=lambda ..., ...)
ChatInterfaceOK ==
    /\ pc = "ChatInterface"
    /\ bound' = bound \cup {"demo"}
    /\ pc' = "launch"
    /\ UNCHANGED <<conn, tools, agentTools, retrieved, exc, failedAt, closeCalls,
                   exitStatus, ctx, received, runCalls, usedAfterClose>>

ChatInterfaceRaise == RaiseInTry("ChatInterface", "InterfaceError")

\* demo.launch() starts the server and blocks in its request loop.
LaunchServe ==
    /\ pc = "launch"
    /\ pc' = "serving"
    /\ UNCHANGED <<bound, conn, tools, agentTools, retrieved, exc, failedAt,
                   closeCalls, exitStatus, ctx, received, runCalls, usedAfterClose>>

\* demo.launch() raises before the server is up.
LaunchRaise == RaiseInTry("launch", "LaunchError")

\* demo.launch() raises out of its blocking loop (an interrupt, a server error).
\* Handlers still in flight are not joined by the script.
ServeRaise ==
    /\ pc = "serving"
    /\ pc' = "finally"
    /\ exc' = "LaunchError"
    /\ failedAt' = "launch"
    /\ UNCHANGED <<bound, conn, tools, agentTools, retrieved, closeCalls,
                   exitStatus, ctx, received, runCalls, usedAfterClose>>

\* demo.launch() returns normally.
LaunchReturn ==
    /\ pc = "serving"
    /\ pc' = "finally"
    /\ UNCHANGED <<bound, conn, tools, agentTools, retrieved, exc, failedAt,
                   closeCalls, exitStatus, ctx, received, runCalls, usedAfterClose>>

\* finally: if hasattr(mcp_client, "close"):
\* Evaluating the name mcp_client when it was never bound raises NameError,
\* which replaces the exception in flight.
FinallyCheck ==
    /\ pc = "finally"
    /\ IF "mcp_client" \notin bound
       THEN /\ exc' = "NameError"
            /\ pc' = "exit"
       ELSE /\ exc' = exc
            /\ pc' = IF HasAttr(MCPClientAttrs, "close") THEN "close" ELSE "exit"
    /\ UNCHANGED <<bound, conn, tools, agentTools, retrieved, failedAt,
                   closeCalls, exitStatus, ctx, received, runCalls, usedAfterClose>>

\* mcp_client.close()
Close ==
    /\ pc = "close"
    /\ closeCalls' = closeCalls + 1
    /\ conn' = "closed"
    /\ pc' = "exit"
    /\ UNCHANGED <<bound, tools, agentTools, retrieved, exc, failedAt,
                   exitStatus, ctx, received, runCalls, usedAfterClose>>

\* End of the module: the exception in flight, if any, reaches the caller.
Exit ==
    /\ pc = "exit"
    /\ pc' = "exited"
    /\ exitStatus' = IF exc = "none" THEN "ok" ELSE "failed"
    /\ UNCHANGED <<bound, conn, tools, agentTools, retrieved, exc, failedAt,
                   closeCalls, ctx, received, runCalls, usedAfterClose>>

\* ------------------------------------------------------- message handlers
\* Variant of FnArgs that threads the history into the agent.
FnArgsWithHistory(message, history) == <<message, history>>

\* Arguments the response function passes to agent.run:
\*     lambda message, history: str(agent.run(message))
FnArgs(message, history) == <<message>>

\* Variant of HandlerCall that refreshes the tool list for every message.
HandlerCallRefreshing(c, m, h) ==
    /\ pc = "serving"
    /\ received < MaxMsgs
    /\ ctx[c].phase = "idle"
    /\ received' = received + 1
    /\ runCalls' = runCalls + 1
    /\ \E ts \in ToolSets :
          /\ tools' = ts
          /\ agentTools' = ts
          /\ retrieved' = Append(retrieved, ts)
    /\ ctx' = [ctx EXCEPT ![c] =
                 [phase |-> "awaiting", msg |-> m, hist |-> h,
                  args |-> <<m>>, run |-> "running", course |-> "none",
                  nTool |-> 0, outcome |-> "none", response |-> ""]]
    /\ UNCHANGED <<pc, bound, conn, exc, failedAt, closeCalls, exitStatus,
                   usedAfterClose>>

\* Variant of HandlerCall that prefixes the request with the text of the
\* previous exchange handled on the same context.
HandlerCallCarrying(c, m, h) ==
    /\ pc = "serving"
    /\ received < MaxMsgs
    /\ ctx[c].phase = "idle"
    /\ received' = received + 1
    /\ runCalls' = runCalls + 1
    /\ ctx' = [ctx EXCEPT ![c] =
                 [phase |-> "awaiting", msg |-> m, hist |-> h,
                  args |-> IF ctx[c].msg = "" THEN <<m>> ELSE <<ctx[c].msg>>,
                  run |-> "running", course |-> "none",
                  nTool |-> 0, outcome |-> "none", response |-> ""]]
    /\ UNCHANGED <<scriptVars, usedAfterClose>>

\* The chat interface accepts a message, dispatches it on context c and calls
\* the response function, which calls agent.run.
HandlerCall(c, m, h) ==
    /\ pc = "serving"
    /\ received < MaxMsgs
    /\ ctx[c].phase = "idle"
    /\ received' = received + 1
    /\ runCalls' = runCalls + 1
    /\ ctx' = [ctx EXCEPT ![c] =
                 [phase |-> "awaiting", msg |-> m, hist |-> h,
                  args |-> FnArgs(m, h), run |-> "running", course |-> "none",
                  nTool |-> 0, outcome |-> "none", response |-> ""]]
    /\ UNCHANGED <<scriptVars, usedAfterClose>>

\* The agent, while running, invokes one of its tools over the session.
AgentToolCall(c) ==
    /\ pc # "exited"
    /\ ctx[c].run = "running"
    /\ ctx[c].nTool < MaxToolCalls
    /\ Len(agentTools) > 0
    /\ ctx' = [ctx EXCEPT ![c].nTool = @ + 1]
    /\ usedAfterClose' = (usedAfterClose \/ conn = "closed")
    /\ UNCHANGED <<scriptVars, received, runCalls>>

\* agent.run returns; the response function returns str(result), which the
\* chat interface displays.
HandlerReturn(c, course) ==
    /\ pc # "exited"
    /\ ctx[c].run = "running"
    /\ LET text == Str(AgentRun(course, ctx[c].args))
       IN ctx' = [ctx EXCEPT ![c].phase = "idle", ![c].run = "returned",
                             ![c].course = course, ![c].nTool = 0,
                             ![c].outcome = "text", ![c].response = text]
    /\ UNCHANGED <<scriptVars, received, runCalls, usedAfterClose>>

\* Variant of HandlerRaise that catches the exception and tears the script
\* down.
HandlerRaiseTearsDown(c) ==
    /\ pc # "exited"
    /\ ctx[c].run = "running"
    /\ ctx' = [ctx EXCEPT ![c].phase = "idle", ![c].run = "raised",
                          ![c].course = "raise", ![c].nTool = 0,
                          ![c].outcome = "text", ![c].response = "error"]
    /\ conn' = "closed"
    /\ UNCHANGED <<pc, bound, tools, agentTools, retrieved, exc, failedAt,
                   closeCalls, exitStatus, received, runCalls, usedAfterClose>>

\* Variant of HandlerRaise with a timeout: a hung call is abandoned with an
\* error as well.
HandlerRaiseOrTimeout(c) ==
    /\ pc # "exited"
    /\ ctx[c].run \in {"running", "hung"}
    /\ ctx' = [ctx EXCEPT ![c].phase = "idle", ![c].run = "raised",
                          ![c].course = "raise", ![c].nTool = 0,
                          ![c].outcome = "error"]
    /\ UNCHANGED <<scriptVars, received, runCalls, usedAfterClose>>

\* agent.run raises; the response function does not catch: the exception
\* reaches the chat interface's invocation wrapper.
HandlerRaise(c) ==
    /\ pc # "exited"
    /\ ctx[c].run = "running"
    /\ ctx' = [ctx EXCEPT ![c].phase = "idle", ![c].run = "raised",
                          ![c].course = "raise", ![c].nTool = 0,
                          ![c].outcome = "error"]
    /\ UNCHANGED <<scriptVars, received, runCalls, usedAfterClose>>

\* agent.run never returns (a hung tool or inference call).
AgentHang(c) ==
    /\ pc # "exited"
    /\ ctx[c].run = "running"
    /\ ctx' = [ctx EXCEPT ![c].run = "hung", ![c].course = "hang"]
    /\ UNCHANGED <<scriptVars, received, runCalls, usedAfterClose>>

\* ---------------------------------------------------------- specification
Next ==
    \/ MCPClientOK
    \/ MCPClientRaise
    \/ GetToolsOK
    \/ GetToolsRaise
    \/ ModelOK
    \/ ModelRaise
    \/ AgentOK
    \/ AgentRaise
    \/ ChatInterfaceOK
    \/ ChatInterfaceRaise
    \/ LaunchServe
    \/ LaunchRaise
    \/ ServeRaise
    \/ LaunchReturn
    \/ FinallyCheck
    \/ Close
    \/ Exit
    \/ \E c \in Ctx, m \in Messages, h \in Histories : HandlerCall(c, m, h)
    \/ \E c \in Ctx : AgentToolCall(c)
    \/ \E c \in Ctx, course \in AgentCourses : HandlerReturn(c, course)
    \/ \E c \in Ctx : HandlerRaise(c)
    \/ \E c \in Ctx : AgentHang(c)

Spec == Init /\ [][Next]_vars

TypeOK ==
    /\ pc \in {"MCPClient", "get_tools", "model", "agent", "ChatInterface",
                "launch", "serving", "finally", "close", "exit", "exited"}
    /\ bound \subseteq {"mcp_client", "tools", "model", "agent", "demo"}
    /\ conn \in {"none", "open", "closed"}
    /\ exitStatus \in {"running", "ok", "failed"}
    /\ closeCalls \in 0..1
    /\ received \in 0..MaxMsgs
    /\ \A c \in Ctx : ctx[c].phase \in {"idle", "awaiting"}

\* ------------------------------------------------------------------ claims
Started(c) == ctx[c].run # "none"
Finished(c) == ctx[c].run \in {"returned", "raised"}

C2_SetupFailurePropagates ==
    (pc = "exited" /\ failedAt \in {"MCPClient", "get_tools"}) =>
        /\ exitStatus = "failed"
        /\ exc = (IF failedAt = "MCPClient" THEN "ConnectionError"
                                            ELSE "ToolRetrievalError")
        /\ ("mcp_client" \in bound => closeCalls = 1)

\* C3: when MCPClient construction raised before mcp_client was bound, the
\* finally block completes without an error of its own (the exception in
\* flight is still the construction failure) and without calling close().
C3_FinallyToleratesUnbound ==
    (pc \in {"exit", "exited"} /\ failedAt = "MCPClient") =>
        /\ exc = "ConnectionError"
        /\ closeCalls = 0

\* C4: no tool is invoked over the session after close() was invoked.
C4_NoUseAfterClose == ~usedAfterClose

\* C5: the startup steps happen in order, each after the previous succeeded,
\* and no message is handled on a run where connect or get_tools failed.
C5_StartupOrder ==
    /\ Len(retrieved) > 0 => "mcp_client" \in bound
    /\ "tools" \in bound => "mcp_client" \in bound /\ Len(retrieved) > 0
    /\ "agent" \in bound => {"tools", "model"} \subseteq bound
    /\ "demo" \in bound => "agent" \in bound
    /\ pc = "serving" => {"mcp_client", "tools", "agent", "demo"} \subseteq bound
    /\ runCalls > 0 => {"mcp_client", "tools", "agent", "demo"} \subseteq bound
    /\ failedAt \in {"MCPClient", "get_tools"} => runCalls = 0

C5_Witness ==
    /\ runCalls > 0
    /\ pc = "serving"
    /\ \E c \in Ctx : Finished(c)

\* C6: two exchanges with the same message but different history pass the
\* same request to agent.run and, when the agent takes the same course,
\* end with the same outcome and the same text.
C6_HistoryIgnored ==
    \A c1, c2 \in Ctx :
        (Started(c1) /\ Started(c2) /\ ctx[c1].msg = ctx[c2].msg) =>
            /\ ctx[c1].args = ctx[c2].args
            /\ (Finished(c1) /\ ctx[c1].course = ctx[c2].course) =>
                   /\ ctx[c1].outcome = ctx[c2].outcome
                   /\ ctx[c1].response = ctx[c2].response

C6_Witness ==
    \E c1, c2 \in Ctx :
        /\ ctx[c1].run = "returned" /\ ctx[c2].run = "returned"
        /\ ctx[c1].msg = ctx[c2].msg
        /\ ctx[c1].hist # ctx[c2].hist
        /\ ctx[c1].course = ctx[c2].course

\* C7: a step in which agent.run raises ends that one exchange with an error
\* outcome and no text, and leaves the main script where it was: no teardown,
\* the session as it was, the chat loop still serving if it was.
C7_RaiseStaysInHandler ==
    [][\A c \in Ctx :
          (ctx[c].run = "running" /\ ctx'[c].run = "raised") =>
              /\ ctx'[c].outcome = "error"
              /\ ctx'[c].response = ""
              /\ ctx'[c].phase = "idle"
              /\ scriptVars' = scriptVars]_vars

C7_Witness ==
    /\ pc = "serving"
    /\ conn = "open"
    /\ closeCalls = 0
    /\ \E c, d \in Ctx :
          /\ ctx[c].run = "raised"
          /\ ctx[d].phase = "awaiting"

\* C8: get_tools is called once, and once the agent is built its tool list
\* is the list retrieved at startup, whatever messages were handled.
C8_ToolsFixed ==
    /\ Len(retrieved) <= 1
    /\ "agent" \in bound =>
           /\ Len(retrieved) = 1
           /\ agentTools = retrieved[1]

C8_Witness ==
    /\ "agent" \in bound
    /\ agentTools = <<"t1", "t2">>
    /\ \E c, d \in Ctx : ctx[c].run = "raised" /\ ctx[d].run = "returned"

\* C9: an exchange goes idle -> awaiting -> idle; accepting a message calls
\* agent.run once with that message; the text displayed on return is the
\* stringified result for that message alone; handler steps change nothing
\* of the script's own state.
C9_MessageCycle ==
    [][/\ \A c \in Ctx :
            /\ (ctx[c].phase = "idle" /\ ctx'[c].phase = "awaiting") =>
                   /\ runCalls' = runCalls + 1
                   /\ received' = received + 1
                   /\ ctx'[c].run = "running"
                   /\ ctx'[c].args = <<ctx'[c].msg>>
                   /\ scriptVars' = scriptVars
            /\ (ctx[c].phase = "awaiting" /\ ctx'[c].phase = "idle") =>
                   /\ runCalls' = runCalls
                   /\ ctx'[c].msg = ctx[c].msg
                   /\ ctx'[c].outcome \in {"text", "error"}
                   /\ ctx'[c].outcome = "text" =>
                          ctx'[c].response =
                              Str(AgentRun(ctx'[c].course, <<ctx[c].msg>>))
                   /\ scriptVars' = scriptVars
            /\ ctx[c].phase = ctx'[c].phase =>
                   /\ ctx'[c].msg = ctx[c].msg
                   /\ ctx'[c].args = ctx[c].args
                   /\ ctx'[c].response = ctx[c].response
       /\ runCalls' # runCalls =>
              \E c \in Ctx : ctx[c].phase = "idle" /\ ctx'[c].phase = "awaiting"
      ]_vars

C9_Witness ==
    /\ runCalls = 2
    /\ \E c \in Ctx :
          /\ ctx[c].phase = "idle"
          /\ ctx[c].run = "returned"
          /\ ctx[c].course = "int"
          /\ ctx[c].response = "68"

\* C10: a request whose agent.run call hung stays awaiting, without a
\* response, in every later step.
C10_HungStaysAwaiting ==
    [][\A c \in Ctx : ctx[c].run = "hung" => ctx'[c] = ctx[c]]_vars

C10_Witness ==
    \E c, d \in Ctx :
        /\ ctx[c].run = "hung"
        /\ ctx[c].phase = "awaiting"
        /\ ctx[c].outcome = "none"
        /\ ctx[d].run = "returned"
        /\ pc = "exited"

====
